---- MODULE Spec2Model ----
(***************************************************************************)
(* Ward boundary pipeline of setshaba-fix.                                 *)
(*                                                                         *)
(*   useGeoJSON hook (src/unnamed/part_001): load cycle over the cache,    *)
(*     the primary boundaries endpoint and the fallback file, with         *)
(*     refresh; checked under Spec.                                        *)
(*   stride decimation of a ring, client hard cap                          *)
(*     (src/citizens-app/src/utils/geoUtils.js) and import route           *)
(*     (src/unnamed/part_000); checked under SpecRing.                     *)
(***************************************************************************)
EXTENDS Integers, Sequences, FiniteSets, TLC

----------------------------------------------------------------------------
(* Bounds of the model *)

\* load cycles one hook instance starts (the mount load plus refreshes)
MaxCycles == 2

\* clock ticks of one hour after the hook is constructed
MaxTicks == 1

\* number of points of the large ring served by the fallback file
BigRingLen == 122

\* longest ring handed to the decimation operators under SpecRing
MaxRingLen == 152

----------------------------------------------------------------------------
(* Program constants *)

CACHE_EXPIRY_HOURS == 2

MsPerHour == 1000 * 60 * 60

\* useGeoJSON(mapBounds, simplificationTolerance = 0.005), in thousandths
simplificationTolerance == 5

\* coords.length > 100 in simplifyGeoJSON
HardCapThreshold == 100

\* Math.ceil(coords.length / 50) in simplifyGeoJSON
HardCapTarget == 50

----------------------------------------------------------------------------
(* JavaScript values *)

Undef == "<undefined>"

Null == "<null>"

NoData == [type |-> "null"]

\* a || b
Truthy(v) == v \notin {Undef, Null, ""}

Or(a, b) == IF Truthy(a) THEN a ELSE b

\* obj?.key on a property bag
Get(p, k) == IF k \in DOMAIN p THEN p[k] ELSE Undef

Max(a, b) == IF a >= b THEN a ELSE b

\* Math.ceil(a / b) for a >= 0, b > 0
CeilDiv(a, b) == (a + b - 1) \div b

Last(s) == s[Len(s)]

----------------------------------------------------------------------------
(* Rings.  A point is [p |-> coordinate pair, off |-> offset]: p names the *)
(* [longitude, latitude] value, off is the distance (thousandths of a      *)
(* degree) by which the point departs from the line through its            *)
(* neighbours, the quantity the line simplification library compares with  *)
(* its tolerance.  Every point of a parsed ring is a distinct array        *)
(* object, so the identity of a point is its index in the ring.            *)

Pt(v, o) == [p |-> v, off |-> o]

IsClosed(ring) == Len(ring) > 0 /\ ring[1].p = Last(ring).p

\* coords.filter((_, index) => index % step === 0), as 0-based indices
KeptIndices(n, step) ==
    SelectSeq([k \in 1..n |-> k - 1], LAMBDA index : index % step = 0)

\* variant: the last point is never pushed back
StrideNoPush(coords, step) ==
    LET kept == KeptIndices(Len(coords), step)
    IN  [k \in 1..Len(kept) |-> coords[kept[k] + 1]]

\* filter by stride, then push coords[length - 1] when the last kept element
\* is not that very element (!== on array objects)
Stride(coords, step) ==
    LET n    == Len(coords)
        kept == KeptIndices(n, step)
        out  == [k \in 1..Len(kept) |-> coords[kept[k] + 1]]
    IN  IF n > 0 /\ Last(kept) # n - 1 THEN Append(out, coords[n]) ELSE out

\* simplifyGeoJSON, the hard cap on coordinates[0] of a Polygon
HardCap(coords) ==
    IF Len(coords) > HardCapThreshold
    THEN Stride(coords, CeilDiv(Len(coords), HardCapTarget))
    ELSE coords

\* import route: step = Math.max(1, Math.floor(coords.length * tolerance)),
\* tolerance = num / den > 0
ImportStep(n, num, den) == Max(1, (n * num) \div den)

ImportDecimate(coords, num, den) ==
    IF num > 0 THEN Stride(coords, ImportStep(Len(coords), num, den)) ELSE coords

----------------------------------------------------------------------------
(* Feature collections *)

Polygon(rings) == [type |-> "Polygon", coordinates |-> rings]

MultiPolygon(polys) == [type |-> "MultiPolygon", coordinates |-> polys]

Feature(props, geom) == [type |-> "Feature", properties |-> props, geometry |-> geom]

Collection(feats) == [type |-> "FeatureCollection", features |-> feats]

HasFeatures(c) == "features" \in DOMAIN c

\* the line simplification library (simplify-geojson, not part of the
\* repository): tolerance-driven reduction of a ring that keeps the two end
\* points and the interior points whose offset exceeds the tolerance
LibSimplify(ring, tol) ==
    SelectSeq([i \in 1..Len(ring) |-> [pt |-> ring[i], idx |-> i]],
              LAMBDA e : e.idx = 1 \/ e.idx = Len(ring) \/ e.pt.off > tol)

LibRing(ring, tol) ==
    LET kept == LibSimplify(ring, tol) IN [k \in 1..Len(kept) |-> kept[k].pt]

LibGeometry(g, tol) ==
    IF g.type = "Polygon"
    THEN [g EXCEPT !.coordinates = [r \in 1..Len(@) |-> LibRing(@[r], tol)]]
    ELSE [g EXCEPT !.coordinates =
              [q \in 1..Len(@) |-> [r \in 1..Len(@[q]) |-> LibRing(@[q][r], tol)]]]

\* the hard cap touches coordinates[0] of a Polygon only
CapGeometry(g) ==
    IF g.type = "Polygon" /\ Len(g.coordinates) > 0
    THEN [g EXCEPT !.coordinates[1] = HardCap(@)]
    ELSE g

\* simplifyGeoJSON: a body without a features array is not simplified (the
\* library throws on it and the catch block returns the argument, or the
\* test of simplified.features skips the hard cap)
simplifyGeoJSON(geojson, tol) ==
    IF ~HasFeatures(geojson) THEN geojson
    ELSE [geojson EXCEPT !.features =
              [k \in 1..Len(@) |->
                  [@[k] EXCEPT !.geometry = CapGeometry(LibGeometry(@, tol))]]]

PruneFeature(f) ==
    Feature([id |-> Or(Get(f.properties, "id"), Get(f.properties, "WARD_ID")),
             name |-> Or(Get(f.properties, "name"), Get(f.properties, "WARD_NAME")),
             municipality |-> Or(Get(f.properties, "municipality"),
                                 Get(f.properties, "MUNICIPALITY"))],
            f.geometry)

\* optimizedGeoJSON = {...simplifiedGeoJSON, features: features.map(prune)}
Optimize(simplified) ==
    [simplified EXCEPT !.features = [k \in 1..Len(@) |-> PruneFeature(@[k])]]

\* JSON.parse(JSON.stringify(x)): a property whose value is undefined is
\* left out of the text and is absent after parsing
JsonProps(p) == [k \in {j \in DOMAIN p : p[j] # Undef} |-> p[k]]

JsonRoundTrip(c) ==
    IF ~HasFeatures(c) THEN c
    ELSE [c EXCEPT !.features =
              [k \in 1..Len(@) |-> [@[k] EXCEPT !.properties = JsonProps(@)]]]

----------------------------------------------------------------------------
(* Bodies the two sources can serve *)

SmallRing == <<Pt(0, 0), Pt(1, 9), Pt(2, 2), Pt(3, 9), Pt(4, 9), Pt(0, 0)>>

TriRing == <<Pt(5, 0), Pt(6, 9), Pt(7, 9), Pt(5, 0)>>

BigRing == [i \in 1..BigRingLen |-> IF i = BigRingLen THEN Pt(0, 0) ELSE Pt(i - 1, 9)]

\* GET /api/wards/boundaries/simplified: properties {ward_id, name}
PrimaryA == Collection(<<Feature([ward_id |-> "12", name |-> "Ward 12"],
                                 Polygon(<<SmallRing>>)),
                         Feature([ward_id |-> "7", name |-> "Ward 7"],
                                 MultiPolygon(<<<<SmallRing>>, <<TriRing>>>>))>>)

\* the fallback file: raw features under either historical spelling
FallbackA == Collection(<<Feature([WARD_ID |-> "12", WARD_NAME |-> "Ward 12",
                                   MUNICIPALITY |-> "JHB", PROVINCE |-> "GT"],
                                  Polygon(<<BigRing>>)),
                          Feature([id |-> "7", name |-> "Ward 7", municipality |-> "TSH"],
                                  Polygon(<<SmallRing>>)),
                          Feature([id |-> "", WARD_ID |-> "8", name |-> "Ward 8"],
                                  Polygon(<<TriRing>>))>>)

\* a JSON body that parses but carries no features array
NoFeatures == [type |-> "FeatureCollection"]

PrimaryBodies == {PrimaryA}

FallbackBodies == {FallbackA, NoFeatures}

----------------------------------------------------------------------------
(* State *)

VARIABLES
    now,          \* Date.now(), milliseconds
    cache,        \* AsyncStorage item cached_wards_geojson
    removes,      \* removeItem calls of refreshGeoJSON still in flight
    geoJsonData,  \* useState(null)
    loading,      \* useState(true)
    error,        \* useState(null)
    dataSource,   \* useState('cache')
    cyc,          \* the load cycles, by number
    ncyc,         \* load cycles started
    lastDone,     \* history: the cycle that completed last
    memWriter,    \* history: cycle whose setGeoJsonData is in geoJsonData
    memSrc,       \* history: source that cycle obtained the collection from
    cacheWriter,  \* history: cycle whose setItem is in cache
    rIn,          \* ring handed to a decimation
    rTol,         \* simplify_tolerance of the import, num / den
    rOut,         \* ring returned
    rOp,          \* decimation applied
    gColl,        \* collection handed to a geometry function
    gPoint,       \* {latitude, longitude} handed to it
    gBounds,      \* mapBounds handed to it
    gLoading,     \* loading of useWards
    gOut,         \* value returned
    gOp,          \* geometry function applied
    req,          \* POST /import: the request, and the fetch of geojson_url
    ipc,          \* POST /import: position of the handler
    wardsToInsert, \* POST /import: records built from the features
    insertedCount, \* POST /import: records of the batches upserted
    attempts,     \* history: outcome of every upsert issued, in order
    wards,        \* the wards table, by ward_id
    res,          \* response of the import
    boundaries,   \* GET /boundaries/simplified: the query and the response
    clock,        \* time of the event loop, milliseconds
    limit,        \* throttle: the interval
    inThrottle,   \* throttle: the flag of the closure
    timers,       \* throttle: due times of the setTimeout callbacks pending
    calls,        \* history: times at which the wrapped function ran
    dropped,      \* history: times of the triggers that did not run it
    mapBounds,    \* OptimizedMapView: useState(null)
    reported      \* history: the region of the last region change

ringVars == <<rIn, rTol, rOut, rOp>>

geoVars == <<gColl, gPoint, gBounds, gLoading, gOut, gOp>>

importVars == <<req, ipc, wardsToInsert, insertedCount, attempts, wards, res,
                boundaries>>

throttleVars == <<clock, limit, inThrottle, timers, calls, dropped, mapBounds, reported>>

hookVars == <<now, cache, removes, geoJsonData, loading, error, dataSource,
              cyc, ncyc, lastDone, memWriter, memSrc, cacheWriter>>

vars == <<hookVars, ringVars, geoVars, importVars, throttleVars>>

\* what the hook leaves alone
offHook == <<ringVars, geoVars, importVars, throttleVars>>

Cycles == 1..MaxCycles

NoEntry == [kind |-> "absent"]

Corrupt == [kind |-> "corrupt"]

Entry(d, t) == [kind |-> "entry", data |-> d, timestamp |-> t]

StartMs == 3 * MsPerHour

\* variant: an entry never expires
IsExpiredNever(timestamp, t) == FALSE

\* cacheAge > CACHE_EXPIRY_HOURS, cacheAge = (now - timestamp) / (1000*60*60)
IsExpired(timestamp, t) == t - timestamp > CACHE_EXPIRY_HOURS * MsPerHour

\* a cycle: its position in loadGeoJSON, the source that served it, and its
\* locals while they are live: optimizedGeoJSON, cacheData.timestamp, and the
\* timestamp getCachedGeoJSON parsed.  History: held is the writer of the
\* unexpired entry the cache held when refreshGeoJSON was called (-1: none),
\* overlap tells that the cycle started while another one was in flight.
IdleCycle ==
    [pc |-> "idle", kind |-> "none", src |-> "none", opt |-> NoData, ts |-> 0,
     seenTs |-> 0, held |-> -1, overlap |-> FALSE]

InFlight(i) == cyc[i].pc \notin {"idle", "done", "error"}

\* an entry left by an earlier session: written by cacheGeoJSON
InitEntries ==
    {Entry(JsonRoundTrip(Optimize(simplifyGeoJSON(PrimaryA, simplificationTolerance))), t) :
        t \in {0, MsPerHour, StartMs}}

InitRing ==
    /\ rIn = <<>>
    /\ rTol = [num |-> 0, den |-> 1]
    /\ rOut = <<>>
    /\ rOp = "none"

\* no geometry function has been applied
InitGeo ==
    /\ gColl = NoData
    /\ gPoint = NoData
    /\ gBounds = NoData
    /\ gLoading = FALSE
    /\ gOut = NoData
    /\ gOp = "none"

\* no import request has arrived and the wards table is empty
InitImport ==
    /\ req = NoData
    /\ ipc = "idle"
    /\ wardsToInsert = <<>>
    /\ insertedCount = 0
    /\ attempts = <<>>
    /\ wards = <<>>
    /\ res = NoData
    /\ boundaries = NoData

\* the throttled handler has been built and never triggered
InitThrottle ==
    /\ clock = 0
    /\ limit = 100
    /\ inThrottle = FALSE
    /\ timers = {}
    /\ calls = <<>>
    /\ dropped = <<>>
    /\ mapBounds = NoData
    /\ reported = NoData

InitHook ==
    /\ now = StartMs
    /\ removes = 0
    /\ geoJsonData = NoData
    /\ loading = TRUE
    /\ error = Null
    /\ dataSource = "cache"
    /\ cyc = [i \in Cycles |-> IdleCycle]
    /\ ncyc = 0
    /\ lastDone = 0
    /\ memWriter = 0
    /\ memSrc = "none"
    /\ cacheWriter = 0

Init ==
    /\ InitHook
    /\ cache \in {NoEntry, Corrupt} \cup InitEntries
    /\ InitRing
    /\ InitGeo
    /\ InitImport
    /\ InitThrottle

----------------------------------------------------------------------------
(* useGeoJSON *)

\* loadGeoJSON up to its first await: setLoading(true), setError(null),
\* AsyncStorage.getItem issued by getCachedGeoJSON
StartCycle(i, k) ==
    /\ loading' = TRUE
    /\ error' = Null
    /\ cyc' = [cyc EXCEPT ![i] =
                 [IdleCycle EXCEPT !.pc = "cacheCheck", !.kind = k,
                     !.overlap = \E j \in Cycles : InFlight(j),
                     !.held = IF /\ k = "refresh"
                                 /\ cache.kind = "entry"
                                 /\ now - cache.timestamp <= CACHE_EXPIRY_HOURS * MsPerHour
                              THEN cacheWriter ELSE -1]]
    /\ ncyc' = i

\* useEffect(() => { loadGeoJSON(); }, [])
Mount ==
    /\ ncyc = 0
    /\ StartCycle(1, "load")
    /\ UNCHANGED <<now, cache, removes, geoJsonData, dataSource, lastDone,
                   memWriter, memSrc, cacheWriter>>
    /\ UNCHANGED offHook

\* refreshGeoJSON: removeItem is issued and not awaited, then loadGeoJSON
refreshGeoJSON ==
    /\ ncyc >= 1
    /\ ncyc < MaxCycles
    /\ removes' = removes + 1
    /\ StartCycle(ncyc + 1, "refresh")
    /\ UNCHANGED <<now, cache, geoJsonData, dataSource, lastDone, memWriter,
                   memSrc, cacheWriter>>
    /\ UNCHANGED offHook

\* the storage serves the removeItem of a refresh (ok or rejected)
RemoveServe ==
    /\ removes > 0
    /\ removes' = removes - 1
    /\ \E ok \in BOOLEAN :
          IF ok THEN cache' = NoEntry /\ cacheWriter' = 0
          ELSE UNCHANGED <<cache, cacheWriter>>
    /\ UNCHANGED <<now, geoJsonData, loading, error, dataSource, cyc, ncyc,
                   lastDone, memWriter, memSrc>>
    /\ UNCHANGED offHook

\* the cycle ends: finally { setLoading(false) }; its locals die
Finish(i, to, from) ==
    /\ loading' = FALSE
    /\ lastDone' = i
    /\ cyc' = [cyc EXCEPT ![i] = [IdleCycle EXCEPT !.pc = to, !.kind = cyc[i].kind,
                                     !.src = from, !.overlap = cyc[i].overlap]]

\* setGeoJsonData(data)
Install(i, data, from) ==
    /\ geoJsonData' = data
    /\ memWriter' = i
    /\ memSrc' = from

\* variant: the cache hit does not return and goes on to the primary fetch
CacheHitNoReturn(i, data) ==
    /\ dataSource' = "cache"
    /\ Install(i, data, "cache")
    /\ loading' = FALSE
    /\ cyc' = [cyc EXCEPT ![i].pc = "primary", ![i].held = -1]
    /\ UNCHANGED <<cache, cacheWriter, error, lastDone>>

\* getCachedGeoJSON returned data: the cache hit of loadGeoJSON
CacheHit(i, data) ==
    /\ dataSource' = "cache"
    /\ Install(i, data, "cache")
    /\ Finish(i, "done", "cache")
    /\ UNCHANGED <<cache, cacheWriter, error>>

\* getCachedGeoJSON returned null: the primary fetch is issued
CacheMiss(i) ==
    /\ cyc' = [cyc EXCEPT ![i].pc = "primary", ![i].held = -1]
    /\ UNCHANGED <<cache, cacheWriter, geoJsonData, memWriter, memSrc, loading,
                   error, dataSource, lastDone>>

\* getItem resolves (or rejects) and getCachedGeoJSON runs to its next await
CacheCheck(i) ==
    /\ cyc[i].pc = "cacheCheck"
    /\ \E readOk \in BOOLEAN :
          IF ~readOk \/ cache.kind \in {"absent", "corrupt"} THEN CacheMiss(i)
          ELSE IF IsExpired(cache.timestamp, now)
          THEN /\ cyc' = [cyc EXCEPT ![i].pc = "purge", ![i].seenTs = cache.timestamp,
                                      ![i].held = -1]
               /\ UNCHANGED <<cache, cacheWriter, geoJsonData, memWriter, memSrc,
                              loading, error, dataSource, lastDone>>
          ELSE CacheHit(i, cache.data)
    /\ UNCHANGED <<now, removes, ncyc>>
    /\ UNCHANGED offHook

\* await AsyncStorage.removeItem of the expired entry; a rejection is caught
\* by getCachedGeoJSON, which returns null either way
Purge(i) ==
    /\ cyc[i].pc = "purge"
    /\ \E ok \in BOOLEAN :
          IF ok THEN cache' = NoEntry /\ cacheWriter' = 0
          ELSE UNCHANGED <<cache, cacheWriter>>
    /\ cyc' = [cyc EXCEPT ![i].pc = "primary", ![i].seenTs = 0]
    /\ UNCHANGED <<now, removes, geoJsonData, memWriter, memSrc, loading, error,
                   dataSource, lastDone, ncyc>>
    /\ UNCHANGED offHook

\* variant: the catch block logs and does not call setError
FailSilent(i, msg) ==
    /\ error' = error
    /\ Finish(i, "error", "none")
    /\ UNCHANGED <<cache, cacheWriter, geoJsonData, memWriter, memSrc>>

\* catch (err) { setError(err.message) } finally { setLoading(false) }
Fail(i, msg) ==
    /\ error' = msg
    /\ Finish(i, "error", "none")
    /\ UNCHANGED <<cache, cacheWriter, geoJsonData, memWriter, memSrc>>

\* a fetched body: simplifyGeoJSON, the pruning map, cacheGeoJSON up to its
\* await of setItem
Fetched(i, body, from) ==
    LET simplified == simplifyGeoJSON(body, simplificationTolerance)
    IN  IF ~HasFeatures(simplified)
        THEN Fail(i, "Cannot read property 'map' of undefined")
        ELSE /\ cyc' = [cyc EXCEPT ![i].pc = "persist", ![i].src = from,
                                   ![i].opt = Optimize(simplified), ![i].ts = now]
             /\ UNCHANGED <<cache, cacheWriter, geoJsonData, memWriter, memSrc,
                            loading, error, lastDone>>

FetchOutcomes == {"ok", "notOk", "netErr", "badJson"}

\* the primary fetch settles: ok and parsed, or any failure into the catch
\* that issues the fallback fetch
PrimaryResult(i) ==
    /\ cyc[i].pc = "primary"
    /\ \E o \in FetchOutcomes :
          IF o = "ok"
          THEN \E body \in PrimaryBodies :
                 /\ dataSource' = "api"
                 /\ Fetched(i, body, "api")
          ELSE /\ cyc' = [cyc EXCEPT ![i].pc = "fallback"]
               /\ UNCHANGED <<cache, cacheWriter, geoJsonData, memWriter, memSrc,
                              loading, error, dataSource, lastDone>>
    /\ UNCHANGED <<now, removes, ncyc>>
    /\ UNCHANGED offHook

FetchError(o) ==
    CASE o = "notOk"   -> "Failed to fetch GeoJSON: 404"
      [] o = "netErr"  -> "Network request failed"
      [] o = "badJson" -> "JSON Parse error"

\* the fallback fetch settles
FallbackResult(i) ==
    /\ cyc[i].pc = "fallback"
    /\ \E o \in FetchOutcomes :
          IF o = "ok"
          THEN \E body \in FallbackBodies :
                 /\ dataSource' = "github"
                 /\ Fetched(i, body, "github")
          ELSE /\ Fail(i, FetchError(o))
               /\ UNCHANGED dataSource
    /\ UNCHANGED <<now, removes, ncyc>>
    /\ UNCHANGED offHook

\* setItem resolves or rejects (the rejection is caught in cacheGeoJSON),
\* then setGeoJsonData(optimizedGeoJSON) and the finally block
Persist(i) ==
    /\ cyc[i].pc = "persist"
    /\ \E ok \in BOOLEAN :
          IF ok
          THEN /\ cache' = Entry(JsonRoundTrip(cyc[i].opt), cyc[i].ts)
               /\ cacheWriter' = i
          ELSE UNCHANGED <<cache, cacheWriter>>
    /\ Install(i, cyc[i].opt, cyc[i].src)
    /\ Finish(i, "done", cyc[i].src)
    /\ UNCHANGED <<now, removes, error, dataSource, ncyc>>
    /\ UNCHANGED offHook

\* time passes
Tick ==
    /\ now < StartMs + MaxTicks * MsPerHour
    /\ now' = now + MsPerHour
    /\ UNCHANGED <<cache, removes, geoJsonData, loading, error, dataSource, cyc,
                   ncyc, lastDone, memWriter, memSrc, cacheWriter>>
    /\ UNCHANGED offHook

Next ==
    \/ Mount
    \/ refreshGeoJSON
    \/ RemoveServe
    \/ Tick
    \/ \E i \in Cycles : CacheCheck(i)
    \/ \E i \in Cycles : Purge(i)
    \/ \E i \in Cycles : PrimaryResult(i)
    \/ \E i \in Cycles : FallbackResult(i)
    \/ \E i \in Cycles : Persist(i)

Spec == Init /\ [][Next]_vars

----------------------------------------------------------------------------
(* Stride decimation of one ring, as a function of the ring *)

\* a parsed ring of n points, first and last equal when closed
RingOf(n, closed) ==
    [k \in 1..n |-> IF k = n /\ closed THEN Pt(0, 9) ELSE Pt(k - 1, 9)]

\* simplify_tolerance values of an import call: the default 0.001, the
\* documented range, fractions of the ring length, and more than the length
Tolerances ==
    {[num |-> 0, den |-> 1], [num |-> 1, den |-> 1000], [num |-> 1, den |-> 100],
     [num |-> 1, den |-> 10], [num |-> 1, den |-> 3], [num |-> 1, den |-> 2],
     [num |-> 1, den |-> 1], [num |-> 2, den |-> 1]}

InitDecimate ==
    /\ InitHook
    /\ cache = NoEntry
    /\ rIn \in {RingOf(n, c) : n \in 1..MaxRingLen, c \in BOOLEAN}
    /\ rTol \in Tolerances
    /\ rOut = <<>>
    /\ rOp = "none"
    /\ InitGeo
    /\ InitImport
    /\ InitThrottle

\* simplifyGeoJSON on the outer ring of a Polygon feature
ClientHardCap ==
    /\ rOp = "none"
    /\ rOut' = HardCap(rIn)
    /\ rOp' = "client"
    /\ UNCHANGED <<rIn, rTol>>
    /\ UNCHANGED <<hookVars, geoVars, importVars, throttleVars>>

\* the import route on coordinates[0] of a Polygon feature
ImportSimplify ==
    /\ rOp = "none"
    /\ rOut' = ImportDecimate(rIn, rTol.num, rTol.den)
    /\ rOp' = "import"
    /\ UNCHANGED <<rIn, rTol>>
    /\ UNCHANGED <<hookVars, geoVars, importVars, throttleVars>>

NextRing == ClientHardCap \/ ImportSimplify

SpecRing == InitDecimate /\ [][NextRing]_vars

----------------------------------------------------------------------------
(* simplifyGeoJSON, as a function of the collection *)

\* a ring of n points, closed, of which the library drops every second
\* interior point
HalfRing(n) ==
    [k \in 1..n |-> IF k = n THEN Pt(0, 9) ELSE Pt(k - 1, IF k % 2 = 0 THEN 2 ELSE 9)]

\* the boundaries a feature can carry: a single ring, a ring with a hole,
\* and a collection of rings
Boundaries(ring) ==
    {Polygon(<<ring>>), Polygon(<<SmallRing, ring>>),
     MultiPolygon(<<<<ring>>>>), MultiPolygon(<<<<TriRing>>, <<ring>>>>)}

InitSimplify ==
    /\ InitHook
    /\ cache = NoEntry
    /\ InitRing
    /\ InitImport
    /\ InitThrottle
    /\ \E n \in 1..MaxRingLen, half \in BOOLEAN :
          \E g \in Boundaries(IF half THEN HalfRing(n) ELSE RingOf(n, TRUE)) :
             gColl = Collection(<<Feature([id |-> "1", name |-> "Ward 1"], g)>>)
    /\ gPoint = NoData
    /\ gBounds = NoData
    /\ gLoading = FALSE
    /\ gOut = NoData
    /\ gOp = "none"

offGeo == <<hookVars, ringVars, importVars, throttleVars>>

\* simplifyGeoJSON(geojson, tolerance)
Simplify ==
    /\ gOp = "none"
    /\ gOut' = simplifyGeoJSON(gColl, simplificationTolerance)
    /\ gOp' = "simplify"
    /\ UNCHANGED <<gColl, gPoint, gBounds, gLoading>>
    /\ UNCHANGED offGeo

NextSimplify == Simplify

SpecSimplify == InitSimplify /\ [][NextSimplify]_vars

----------------------------------------------------------------------------
(* Point location: isPointInPolygon, findWardForPoint, findWardByLocation. *)
(* The coordinate pair of a point is <<longitude, latitude>>, in whole      *)
(* units, so that the quotient of the ray casting test is compared exactly. *)

\* vertices lie on the even coordinates 0, 2 .. 2 * GridMax of both axes
GridMax == 2

\* { latitude, longitude }
LatLng(lat, lng) == [latitude |-> lat, longitude |-> lng]

\* the value a boolean function returns
Bool(b) == [type |-> "boolean", value |-> b]

\* a < n / d, d # 0
LessThanQuotient(a, n, d) == IF d > 0 THEN a * d < n ELSE a * d > n

\* variant: the first comparison of the latitude test is not strict
TogglesLoose(point, polygon, i, j) ==
    LET xi == polygon[i + 1].p[1]
        yi == polygon[i + 1].p[2]
        xj == polygon[j + 1].p[1]
        yj == polygon[j + 1].p[2]
    IN  /\ (yi >= point.latitude) # (yj > point.latitude)
        /\ LessThanQuotient(point.longitude - xi,
                            (xj - xi) * (point.latitude - yi), yj - yi)

\* the condition of one turn of the loop, on the edge polygon[j] - polygon[i]:
\* ((yi > lat) !== (yj > lat)) && (lng < (xj - xi) * (lat - yi) / (yj - yi) + xi)
Toggles(point, polygon, i, j) ==
    LET xi == polygon[i + 1].p[1]
        yi == polygon[i + 1].p[2]
        xj == polygon[j + 1].p[1]
        yj == polygon[j + 1].p[2]
    IN  /\ (yi > point.latitude) # (yj > point.latitude)
        /\ LessThanQuotient(point.longitude - xi,
                            (xj - xi) * (point.latitude - yi), yj - yi)

\* for (i = 0, j = length - 1; i < length; j = i++) inside = !inside on
\* every turn whose condition holds
isPointInPolygon(point, polygon) ==
    LET n     == Len(polygon)
        turns == {i \in 0..(n - 1) :
                     Toggles(point, polygon, i, IF i = 0 THEN n - 1 ELSE i - 1)}
    IN  Cardinality(turns) % 2 = 1

\* the test findWardForPoint applies to one feature
InFeature(point, feature) ==
    LET type == Get(feature.geometry, "type")
    IN  IF type = "Polygon"
        THEN isPointInPolygon(point, feature.geometry.coordinates[1])
        ELSE IF type = "MultiPolygon"
        THEN \E q \in 1..Len(feature.geometry.coordinates) :
                 isPointInPolygon(point, feature.geometry.coordinates[q][1])
        ELSE FALSE

\* variant: the last feature that contains the point is returned
findWardForPointLast(point, geoJsonData_) ==
    IF geoJsonData_ = NoData \/ ~HasFeatures(geoJsonData_) \/ point = NoData
    THEN NoData
    ELSE LET hits == SelectSeq(geoJsonData_.features,
                               LAMBDA feature : InFeature(point, feature))
         IN  IF hits = <<>> THEN NoData ELSE Last(hits)

\* the first feature, in the order of the collection, whose test holds
findWardForPoint(point, geoJsonData_) ==
    IF geoJsonData_ = NoData \/ ~HasFeatures(geoJsonData_) \/ point = NoData
    THEN NoData
    ELSE LET hits == SelectSeq(geoJsonData_.features,
                               LAMBDA feature : InFeature(point, feature))
         IN  IF hits = <<>> THEN NoData ELSE Head(hits)

\* `Ward ${ward.properties?.WARD_ID}`
WardLabel(v) == "Ward " \o v

\* useWards.findWardByLocation
findWardByLocation(geoJsonData_, loading_, latitude, longitude) ==
    IF geoJsonData_ = NoData \/ loading_ THEN NoData
    ELSE LET ward == findWardForPoint(LatLng(latitude, longitude), geoJsonData_)
         IN  IF ward = NoData THEN NoData
             ELSE [id |-> Or(Get(ward.properties, "id"), Get(ward.properties, "WARD_ID")),
                   name |-> LET named == Or(Get(ward.properties, "name"),
                                            Get(ward.properties, "WARD_NAME"))
                            IN  IF Truthy(named) THEN named
                                ELSE WardLabel(Get(ward.properties, "WARD_ID")),
                   municipality |-> Or(Get(ward.properties, "municipality"),
                                       Get(ward.properties, "MUNICIPALITY")),
                   properties |-> ward.properties]

\* a parsed ring over the given coordinate pairs
RingXY(pairs) == [k \in 1..Len(pairs) |-> Pt(pairs[k], 9)]

\* (b - a) x (c - a)
Cross(a, b, c) == (b[1] - a[1]) * (c[2] - a[2]) - (b[2] - a[2]) * (c[1] - a[1])

GridVertices == {<<2 * a, 2 * b>> : a, b \in 0..GridMax}

GridRank(v) == v[1] * (2 * GridMax + 1) + v[2]

\* every triangle over the grid vertices, closed, in both orientations
Triangles ==
    LET corners == {t \in GridVertices \X GridVertices \X GridVertices :
                       /\ GridRank(t[1]) < GridRank(t[2])
                       /\ GridRank(t[2]) < GridRank(t[3])
                       /\ Cross(t[1], t[2], t[3]) # 0}
    IN  {RingXY(<<t[1], t[2], t[3], t[1]>>) : t \in corners}
           \cup {RingXY(<<t[1], t[3], t[2], t[1]>>) : t \in corners}

SquareA == RingXY(<<<<0, 0>>, <<4, 0>>, <<4, 4>>, <<0, 4>>, <<0, 0>>>>)

SquareB == RingXY(<<<<2, 0>>, <<2, 4>>, <<4, 4>>, <<4, 0>>, <<2, 0>>>>)

Diamond == RingXY(<<<<2, 0>>, <<4, 2>>, <<2, 4>>, <<0, 2>>, <<2, 0>>>>)

Hexagon == RingXY(<<<<1, 0>>, <<3, 0>>, <<4, 2>>, <<3, 4>>, <<1, 4>>, <<0, 2>>, <<1, 0>>>>)

CornerA == RingXY(<<<<0, 0>>, <<2, 0>>, <<0, 2>>, <<0, 0>>>>)

ConvexRings == Triangles \cup {SquareA, SquareB, Diamond, Hexagon}

GridPoints ==
    {LatLng(lat, lng) : lat \in -1..(2 * GridMax + 1), lng \in -1..(2 * GridMax + 1)}

\* a feature as GET /boundaries/simplified emits it
Ward(id, geom) == Feature([ward_id |-> id, name |-> WardLabel(id)], geom)

\* collections of wards that overlap; the last two carry the spellings of
\* the fallback file and features without a boundary
WardCollections ==
    {Collection(<<Ward("1", Polygon(<<SquareA>>)), Ward("2", Polygon(<<SquareB>>))>>),
     Collection(<<Ward("2", Polygon(<<SquareB>>)), Ward("1", Polygon(<<SquareA>>))>>),
     Collection(<<Ward("3", MultiPolygon(<<<<CornerA>>, <<SquareB>>>>)),
                  Ward("4", Polygon(<<Diamond>>)),
                  Ward("1", Polygon(<<SquareA>>))>>),
     Collection(<<Feature([WARD_ID |-> "5", WARD_NAME |-> "Ward 5", MUNICIPALITY |-> "JHB"],
                          Polygon(<<Hexagon>>)),
                  Feature([id |-> "6", name |-> "Ward 6", municipality |-> "TSH"],
                          Polygon(<<SquareA>>))>>),
     Collection(<<Feature([id |-> "7"], NoData),
                  Feature([id |-> "8"], [type |-> "Point", coordinates |-> <<2, 2>>]),
                  Feature([id |-> "", WARD_ID |-> "9"], Polygon(<<Diamond>>))>>),
     Collection(<<>>)}

\* the collection useWards holds was served by GET /boundaries/simplified
FromEndpoint(c) ==
    /\ HasFeatures(c)
    /\ \A k \in 1..Len(c.features) : DOMAIN c.features[k].properties = {"ward_id", "name"}

InitLocate ==
    /\ InitHook
    /\ cache = NoEntry
    /\ InitRing
    /\ InitImport
    /\ InitThrottle
    /\ \/ /\ \E ring \in ConvexRings : gColl = Collection(<<Ward("1", Polygon(<<ring>>))>>)
          /\ gPoint \in GridPoints
          /\ gLoading = FALSE
       \/ /\ gColl \in WardCollections \cup {NoData, NoFeatures}
          /\ gPoint \in GridPoints \cup {NoData}
          /\ gLoading \in BOOLEAN
    /\ gBounds = NoData
    /\ gOut = NoData
    /\ gOp = "none"

\* isPointInPolygon(point, coordinates) on the outer ring of a Polygon
PointInPolygon ==
    /\ gOp = "none"
    /\ gColl # NoData /\ HasFeatures(gColl)
    /\ gPoint # NoData
    /\ \E k \in 1..Len(gColl.features) :
          /\ Get(gColl.features[k].geometry, "type") = "Polygon"
          /\ LET ring == gColl.features[k].geometry.coordinates[1]
             IN  gOut' = [type |-> "boolean", of |-> ring,
                          value |-> isPointInPolygon(gPoint, ring)]
    /\ gOp' = "pip"
    /\ UNCHANGED <<gColl, gPoint, gBounds, gLoading>>
    /\ UNCHANGED offGeo

\* findWardForPoint(point, geoJsonData)
FindWard ==
    /\ gOp = "none"
    /\ gOut' = findWardForPoint(gPoint, gColl)
    /\ gOp' = "find"
    /\ UNCHANGED <<gColl, gPoint, gBounds, gLoading>>
    /\ UNCHANGED offGeo

\* findWardByLocation(latitude, longitude) of useWards, whose collection is
\* null or the body of getSimplifiedBoundaries
ResolveWard ==
    /\ gOp = "none"
    /\ gColl = NoData \/ FromEndpoint(gColl)
    /\ gPoint # NoData
    /\ gOut' = findWardByLocation(gColl, gLoading, gPoint.latitude, gPoint.longitude)
    /\ gOp' = "resolve"
    /\ UNCHANGED <<gColl, gPoint, gBounds, gLoading>>
    /\ UNCHANGED offGeo

NextLocate == PointInPolygon \/ FindWard \/ ResolveWard

SpecLocate == InitLocate /\ [][NextLocate]_vars

----------------------------------------------------------------------------
(* The viewport filter: filterGeoJSONByBounds and filteredGeoJSON of the    *)
(* hook.  Here one unit of a coordinate is 0.01 degree.                     *)

\* largest number of features of a collection handed to the filter
MaxFeatures == 210

\* 0.01 degree
BoundsMargin == 1

\* index % 2 !== 0 && geojson.features.length > 50
StrideSkipAbove == 50

\* geoJsonData.features.slice(0, 50) when there are no bounds
InitialLoadLimit == 50

\* filtered.features.slice(0, 100)
MaxFiltered == 100

Min(a, b) == IF a <= b THEN a ELSE b

\* array.slice(0, n)
Slice(seq, n) == SubSeq(seq, 1, Min(n, Len(seq)))

MapBounds(south, west, north, east) ==
    [northEast |-> LatLng(north, east), southWest |-> LatLng(south, west)]

isPointInBounds(point, bounds) ==
    IF bounds = NoData \/ point = NoData THEN TRUE
    ELSE /\ point.latitude >= bounds.southWest.latitude
         /\ point.latitude <= bounds.northEast.latitude
         /\ point.longitude >= bounds.southWest.longitude
         /\ point.longitude <= bounds.northEast.longitude

expandedBounds(bounds) ==
    MapBounds(bounds.southWest.latitude - BoundsMargin,
              bounds.southWest.longitude - BoundsMargin,
              bounds.northEast.latitude + BoundsMargin,
              bounds.northEast.longitude + BoundsMargin)

\* variant: no feature is skipped for its index
KeepsFeatureNoSkip(feature, index, length, bounds) ==
    IF feature.geometry = NoData \/ "coordinates" \notin DOMAIN feature.geometry
    THEN FALSE
    ELSE IF feature.geometry.type # "Polygon" \/ Len(feature.geometry.coordinates) = 0
    THEN FALSE
    ELSE \E k \in 1..Len(feature.geometry.coordinates[1]) :
            LET coord == feature.geometry.coordinates[1][k].p
            IN  isPointInBounds(LatLng(coord[2], coord[1]), bounds)

\* the callback of features.filter at a 0-based index.  coordinates[0] of a
\* MultiPolygon is a polygon, whose elements are rings: coord[1] and coord[0]
\* are then points, no comparison with a number holds and the feature is
\* dropped.
KeepsFeature(feature, index, length, bounds) ==
    IF index % 2 # 0 /\ length > StrideSkipAbove THEN FALSE
    ELSE IF feature.geometry = NoData \/ "coordinates" \notin DOMAIN feature.geometry
    THEN FALSE
    ELSE IF feature.geometry.type # "Polygon" \/ Len(feature.geometry.coordinates) = 0
    THEN FALSE
    ELSE \E k \in 1..Len(feature.geometry.coordinates[1]) :
            LET coord == feature.geometry.coordinates[1][k].p
            IN  isPointInBounds(LatLng(coord[2], coord[1]), bounds)

filterGeoJSONByBounds(geojson, bounds) ==
    IF bounds = NoData \/ geojson = NoData \/ ~HasFeatures(geojson) THEN geojson
    ELSE LET length  == Len(geojson.features)
             indexed == [k \in 1..length |-> [feature |-> geojson.features[k], index |-> k - 1]]
             kept    == SelectSeq(indexed,
                            LAMBDA e : KeepsFeature(e.feature, e.index, length,
                                                    expandedBounds(bounds)))
         IN  [geojson EXCEPT !.features = [k \in 1..Len(kept) |-> kept[k].feature]]

\* variant: the result of the filter is not cut to 100 features
filteredGeoJSONUncut(geoJsonData_, mapBounds_) ==
    IF geoJsonData_ = NoData THEN geoJsonData_
    ELSE IF mapBounds_ = NoData
    THEN [geoJsonData_ EXCEPT !.features = Slice(@, InitialLoadLimit)]
    ELSE filterGeoJSONByBounds(geoJsonData_, mapBounds_)

\* the useMemo of the hook, as a function of geoJsonData and mapBounds
filteredGeoJSON(geoJsonData_, mapBounds_) ==
    IF geoJsonData_ = NoData THEN geoJsonData_
    ELSE IF mapBounds_ = NoData
    THEN [geoJsonData_ EXCEPT !.features = Slice(@, InitialLoadLimit)]
    ELSE [filterGeoJSONByBounds(geoJsonData_, mapBounds_) EXCEPT
              !.features = Slice(@, MaxFiltered)]

\* a small closed ring whose lowest corner is at <<x, y>>
Plot(x, y) == RingXY(<<<<x, y>>, <<x + 1, y>>, <<x + 1, y + 1>>, <<x, y>>>>)

\* where the features of a collection lie: all near <<10, 10>>, all far
\* from it, every third near, or near except for a run of multi-ring ones
Layouts == {"near", "far", "third", "mixed"}

FeatureAt(k, layout) ==
    LET near == Polygon(<<Plot(10, 10)>>)
        far  == Polygon(<<Plot(50 + (k % 7), 50)>>)
    IN  Feature([id |-> ToString(k), name |-> WardLabel(ToString(k))],
                CASE layout = "near"  -> near
                  [] layout = "far"   -> far
                  [] layout = "third" -> IF k % 3 = 0 THEN near ELSE far
                  [] layout = "mixed" -> IF k % 5 = 0 THEN MultiPolygon(<<<<Plot(10, 10)>>>>)
                                         ELSE near)

\* the sizes around the thresholds of the filter, up to MaxFeatures
Sizes == {n \in {0, 1, 2, 49, 50, 51, 52, 60, 99, 100, 101, 150, 199, 200, 201, 202,
                 MaxFeatures} : n <= MaxFeatures}

Viewports ==
    {NoData, MapBounds(8, 8, 12, 12), MapBounds(12, 12, 20, 20), MapBounds(30, 30, 40, 40)}

InitFilter ==
    /\ InitHook
    /\ cache = NoEntry
    /\ InitRing
    /\ InitImport
    /\ InitThrottle
    /\ \/ gColl = NoData
       \/ \E n \in Sizes, layout \in Layouts :
             gColl = Collection([k \in 1..n |-> FeatureAt(k, layout)])
    /\ gBounds \in Viewports
    /\ gPoint = NoData
    /\ gLoading = FALSE
    /\ gOut = NoData
    /\ gOp = "none"

\* the hook returns geoJsonData: filteredGeoJSON
FilterView ==
    /\ gOp = "none"
    /\ gOut' = filteredGeoJSON(gColl, gBounds)
    /\ gOp' = "filter"
    /\ UNCHANGED <<gColl, gPoint, gBounds, gLoading>>
    /\ UNCHANGED offGeo

\* filterGeoJSONByBounds(geojson, bounds), called with both arguments
FilterBounds ==
    /\ gOp = "none"
    /\ gColl # NoData
    /\ gBounds # NoData
    /\ gOut' = filterGeoJSONByBounds(gColl, gBounds)
    /\ gOp' = "bounds"
    /\ UNCHANGED <<gColl, gPoint, gBounds, gLoading>>
    /\ UNCHANGED offGeo

NextFilter == FilterView \/ FilterBounds

SpecFilter == InitFilter /\ [][NextFilter]_vars

----------------------------------------------------------------------------
(* POST /api/wards/import and GET /api/wards/boundaries/simplified.  The    *)
(* identifiers of the bodies are JSON strings, for which wardId.toString()  *)
(* is the identifier itself.                                                *)

\* most features of a body served to the import
MaxImportFeatures == 203

batchSize == 100

\* utils/helpers.js
formatError(message) == [success |-> FALSE, error |-> message]

formatSuccess(data, message) == [success |-> TRUE, data |-> data, message |-> message]

\* res.status(code).json(body); res.json(body) answers 200
Response(code, body) == [status |-> code, body |-> body]

\* feature.properties || {}
PropertiesOf(feature) == IF feature.properties = NoData THEN <<>> ELSE feature.properties

\* properties.id || properties.WARD_ID || properties.ward_id
wardIdOf(feature) ==
    LET properties == PropertiesOf(feature)
    IN  Or(Or(Get(properties, "id"), Get(properties, "WARD_ID")), Get(properties, "ward_id"))

\* properties.name || properties.WARD_NAME || `Ward ${wardId}`
wardNameOf(feature) ==
    LET properties == PropertiesOf(feature)
        named      == Or(Get(properties, "name"), Get(properties, "WARD_NAME"))
    IN  IF Truthy(named) THEN named ELSE WardLabel(wardIdOf(feature))

\* feature.geometry && feature.geometry.coordinates, a Polygon, and
\* simplify_tolerance > 0: the block that decimates coordinates[0]
Decimated(feature, tol) ==
    /\ feature.geometry # NoData
    /\ "coordinates" \in DOMAIN feature.geometry
    /\ feature.geometry.type = "Polygon"
    /\ tol.num > 0

\* the turn of the loop on this feature throws a TypeError: the feature is
\* null (feature.properties), or coordinates[0] is undefined (coords.length)
Throws(feature, tol) ==
    \/ feature = NoData
    \/ /\ Truthy(wardIdOf(feature))
       /\ Decimated(feature, tol)
       /\ Len(feature.geometry.coordinates) = 0

simplifiedGeometry(feature, tol) ==
    IF Decimated(feature, tol)
    THEN [feature.geometry EXCEPT
              !.coordinates = <<ImportDecimate(@[1], tol.num, tol.den)>>]
    ELSE feature.geometry

\* the record pushed for a feature that has a ward id
WardRecord(feature, municipality_id, tol) ==
    [ward_id |-> wardIdOf(feature),
     name |-> wardNameOf(feature),
     municipality_id |-> Or(municipality_id, Null),
     geojson |-> simplifiedGeometry(feature, tol),
     properties |-> PropertiesOf(feature)]

\* variant: a feature without a ward id is pushed like the others
BuildRecordsNoSkip(features, municipality_id, tol) ==
    [k \in 1..Len(features) |-> WardRecord(features[k], municipality_id, tol)]

\* the loop over geojsonData.features when no turn throws: wardsToInsert
BuildRecords(features, municipality_id, tol) ==
    LET withId == SelectSeq(features, LAMBDA feature : Truthy(wardIdOf(feature)))
    IN  [k \in 1..Len(withId) |-> WardRecord(withId[k], municipality_id, tol)]

\* wardsToInsert.slice(i, i + batchSize), i the 0-based start
BatchAt(records, i) == SubSeq(records, i + 1, Min(i + batchSize, Len(records)))

\* two records of one upsert name the same ward_id
HasDuplicate(batch) ==
    \E a, b \in 1..Len(batch) : a # b /\ batch[a].ward_id = batch[b].ward_id

\* upsert(batch, { onConflict: 'ward_id', ignoreDuplicates: false })
Upsert(table, batch) ==
    LET ids == {batch[k].ward_id : k \in 1..Len(batch)}
    IN  [id \in DOMAIN table \cup ids |->
            IF id \in ids
            THEN batch[CHOOSE k \in 1..Len(batch) : batch[k].ward_id = id]
            ELSE table[id]]

\* variant: the rows of every municipality are returned
SelectBoundariesAll(table, municipality_id) ==
    {table[id] : id \in DOMAIN table}

\* select('ward_id, name, geojson'), .eq('municipality_id', ...) when the
\* query names a municipality
SelectBoundaries(table, municipality_id) ==
    {table[id] : id \in {j \in DOMAIN table :
                            ~Truthy(municipality_id)
                               \/ table[j].municipality_id = municipality_id}}

\* feature k of a served body: the identifier is spelled id, WARD_ID or
\* ward_id in turn, and is missing from every feature k with k % gap = 2
ImportFeature(k, gap) ==
    LET id    == ToString(k)
        props == IF gap > 0 /\ k % gap = 2 % gap
                 THEN [WARD_NAME |-> WardLabel(id), PROVINCE |-> "GT"]
                 ELSE CASE k % 3 = 0 -> [id |-> id, name |-> WardLabel(id)]
                        [] k % 3 = 1 -> [WARD_ID |-> id, WARD_NAME |-> WardLabel(id)]
                        [] k % 3 = 2 -> [ward_id |-> id]
    IN  Feature(props, Polygon(<<Plot(k % 5, 0)>>))

ImportBody(n, gap) == Collection([k \in 1..n |-> ImportFeature(k, gap)])

ImportSizes ==
    {n \in {1, 3, 99, 100, 101, 200, 201, MaxImportFeatures} : n <= MaxImportFeatures}

\* a Polygon whose coordinates list has no ring, between two sound features
EmptyPolygonBody ==
    Collection(<<ImportFeature(1, 0),
                 Feature([id |-> "2", name |-> "Ward 2"], Polygon(<<>>)),
                 ImportFeature(3, 0)>>)

\* a null among the features
NullFeatureBody == Collection(<<ImportFeature(1, 0), NoData>>)

\* no feature has an identifier; the second has no properties at all
NoIdBody ==
    Collection(<<ImportFeature(2, 3), Feature(NoData, Polygon(<<Plot(0, 0)>>))>>)

\* two features under one identifier
DuplicateBody ==
    Collection(<<ImportFeature(1, 0), Feature([ward_id |-> "1"], Polygon(<<Plot(3, 3)>>))>>)

\* an empty id next to a WARD_ID, a multi-ring boundary, no boundary
OddBody ==
    Collection(<<Feature([id |-> "", WARD_ID |-> "9"], Polygon(<<SquareA>>)),
                 Feature([id |-> "10"], MultiPolygon(<<<<SquareA>>, <<Diamond>>>>)),
                 Feature([WARD_NAME |-> "Ward 11"], Polygon(<<SquareB>>)),
                 Feature([id |-> "12", name |-> "Ward 12"], NoData)>>)

ImportBodies ==
    {ImportBody(n, gap) : n \in ImportSizes, gap \in {0, 3}}
        \cup {NoFeatures, EmptyPolygonBody, NullFeatureBody, NoIdBody, DuplicateBody,
              OddBody}

\* simplify_tolerance: the default 0.001, none, and half the ring
ImportTolerances ==
    {[num |-> 1, den |-> 1000], [num |-> 0, den |-> 1], [num |-> 1, den |-> 2]}

Municipalities == {"JHB", "TSH"}

Row(id, municipality_id) ==
    [ward_id |-> id, name |-> WardLabel(id), municipality_id |-> municipality_id,
     geojson |-> Polygon(<<Plot(7, 7)>>), properties |-> [id |-> id]]

\* the table before the import: empty, or with rows of earlier imports
Tables ==
    {[id \in {} |-> Row(id, "JHB")],
     [id \in {"1", "900", "901"} |-> Row(id, IF id = "900" THEN "JHB" ELSE "TSH")]}

InitRoutes ==
    /\ InitHook
    /\ cache = NoEntry
    /\ InitRing
    /\ InitGeo
    /\ InitThrottle
    /\ req = NoData
    /\ ipc = "idle"
    /\ wardsToInsert = <<>>
    /\ insertedCount = 0
    /\ attempts = <<>>
    /\ wards \in Tables
    /\ res = NoData
    /\ boundaries = NoData

offRoutes == <<hookVars, ringVars, geoVars, throttleVars>>

\* the handler ends with this response
Respond(code, body) ==
    /\ res' = Response(code, body)
    /\ ipc' = "done"

\* POST /import arrives: the body is read and the fetch of geojson_url issued
ImportRequest ==
    /\ ipc = "idle"
    /\ \E url \in {Undef, "url"}, municipality_id \in {Undef} \cup Municipalities,
          tol \in ImportTolerances, body \in ImportBodies :
          /\ req' = [geojson_url |-> url, municipality_id |-> municipality_id,
                     simplify_tolerance |-> tol, served |-> body, fetch |-> "pending"]
          /\ IF ~Truthy(url)
             THEN Respond(400, formatError("GeoJSON URL is required"))
             ELSE ipc' = "fetch" /\ UNCHANGED res
    /\ UNCHANGED <<wardsToInsert, insertedCount, attempts, wards, boundaries>>
    /\ UNCHANGED offRoutes

\* the fetch settles and the handler runs to its first upsert: the checks of
\* the body, then the loop over the features
ImportFetched ==
    /\ ipc = "fetch"
    /\ \E o \in FetchOutcomes :
          LET geojsonData == req.served
              tol         == req.simplify_tolerance
          IN  /\ req' = [req EXCEPT !.fetch = o]
              /\ IF o = "notOk"
                 THEN /\ Respond(400, formatError("Failed to fetch GeoJSON data"))
                      /\ UNCHANGED wardsToInsert
                 ELSE IF o # "ok"
                 THEN /\ Respond(500, formatError("Internal server error"))
                      /\ UNCHANGED wardsToInsert
                 ELSE IF ~HasFeatures(geojsonData)
                 THEN /\ Respond(400, formatError("Invalid GeoJSON format"))
                      /\ UNCHANGED wardsToInsert
                 ELSE IF \E k \in 1..Len(geojsonData.features) :
                             Throws(geojsonData.features[k], tol)
                 THEN /\ Respond(500, formatError("Internal server error"))
                      /\ UNCHANGED wardsToInsert
                 ELSE LET records == BuildRecords(geojsonData.features,
                                                  req.municipality_id, tol)
                      IN  IF Len(records) = 0
                          THEN /\ Respond(400, formatError("No valid wards found in GeoJSON"))
                               /\ UNCHANGED wardsToInsert
                          ELSE /\ wardsToInsert' = records
                               /\ ipc' = "upsert"
                               /\ UNCHANGED res
    /\ UNCHANGED <<insertedCount, attempts, wards, boundaries>>
    /\ UNCHANGED offRoutes

\* what the store answers to an upsert: done, an error object, a rejection
UpsertOutcomes == {"ok", "error", "throws"}

StoreErrors == {"canceling statement due to statement timeout"}

DuplicateError == "ON CONFLICT DO UPDATE command cannot affect row a second time"

\* the upsert of the batch at i settles, and the loop goes on to the next
\* upsert or the handler answers
UpsertSettles ==
    /\ ipc = "upsert"
    /\ LET i     == batchSize * Len(attempts)
           batch == BatchAt(wardsToInsert, i)
       IN  \E o \in UpsertOutcomes :
              /\ HasDuplicate(batch) => o # "ok"
              /\ attempts' = Append(attempts, [i |-> i, batch |-> batch, outcome |-> o])
              /\ IF o = "ok"
                 THEN /\ wards' = Upsert(wards, batch)
                      /\ insertedCount' = insertedCount + Len(batch)
                      /\ IF i + batchSize < Len(wardsToInsert)
                         THEN UNCHANGED <<ipc, res>>
                         ELSE Respond(200,
                                  formatSuccess(
                                      [imported_count |-> insertedCount',
                                       total_features |-> Len(req.served.features)],
                                      "Successfully imported wards"))
                 ELSE IF o = "error"
                 THEN /\ \E message \in StoreErrors \cup {DuplicateError} :
                           /\ HasDuplicate(batch) <=> message = DuplicateError
                           /\ Respond(400, formatError("Failed to insert ward batch: "
                                                          \o message))
                      /\ UNCHANGED <<wards, insertedCount>>
                 ELSE /\ Respond(500, formatError("Internal server error"))
                      /\ UNCHANGED <<wards, insertedCount>>
    /\ UNCHANGED <<req, wardsToInsert, boundaries>>
    /\ UNCHANGED offRoutes

\* GET /boundaries/simplified once the import has answered.  The rows come
\* in the order of the store: the features are kept as a set.
GetBoundaries ==
    /\ ipc = "done"
    /\ boundaries = NoData
    /\ \E municipality_id \in {Undef} \cup Municipalities, ok \in BOOLEAN :
          boundaries' =
              [municipality_id |-> municipality_id,
               response |->
                  IF ok
                  THEN Response(200, formatSuccess(
                           [geojson |->
                               [type |-> "FeatureCollection",
                                features |->
                                   {Feature([ward_id |-> ward.ward_id, name |-> ward.name],
                                            ward.geojson) :
                                       ward \in SelectBoundaries(wards, municipality_id)}]],
                           Undef))
                  ELSE Response(400, formatError("Failed to fetch ward boundaries"))]
    /\ UNCHANGED <<req, ipc, wardsToInsert, insertedCount, attempts, wards, res>>
    /\ UNCHANGED offRoutes

NextRoutes == ImportRequest \/ ImportFetched \/ UpsertSettles \/ GetBoundaries

SpecRoutes == InitRoutes /\ [][NextRoutes]_vars

----------------------------------------------------------------------------
(* throttle, as OptimizedMapView uses it on onRegionChangeComplete *)

\* the event loop is followed up to this time, milliseconds
MaxClock == 400

\* region changes delivered to the handler
MaxTriggers == 5

\* the steps in which time is followed, milliseconds
ClockStep == 50

\* Platform.OS === 'ios' ? 100 : 200
Limits == {100, 200}

InitThrottled ==
    /\ InitHook
    /\ cache = NoEntry
    /\ InitRing
    /\ InitGeo
    /\ InitImport
    /\ clock = 0
    /\ limit \in Limits
    /\ inThrottle = FALSE
    /\ timers = {}
    /\ calls = <<>>
    /\ dropped = <<>>
    /\ mapBounds = NoData
    /\ reported = NoData

offThrottle == <<hookVars, ringVars, geoVars, importVars>>

\* a region of the map, as onRegionChangeComplete reports it
Region(latitude, longitude, latitudeDelta, longitudeDelta) ==
    [latitude |-> latitude, longitude |-> longitude,
     latitudeDelta |-> latitudeDelta, longitudeDelta |-> longitudeDelta]

Regions == {Region(10, 10, 4, 4), Region(30, 20, 8, 6)}

\* the bounds the wrapped function computes from a region
boundsOf(region) ==
    [northEast |-> LatLng(region.latitude + region.latitudeDelta \div 2,
                          region.longitude + region.longitudeDelta \div 2),
     southWest |-> LatLng(region.latitude - region.latitudeDelta \div 2,
                          region.longitude - region.longitudeDelta \div 2)]

\* variant: the flag is cleared after half the limit
executedFunctionEarly(region) ==
    IF ~inThrottle
    THEN /\ mapBounds' = boundsOf(region)
         /\ calls' = Append(calls, clock)
         /\ inThrottle' = TRUE
         /\ timers' = timers \cup {clock + limit \div 2}
         /\ UNCHANGED dropped
    ELSE /\ dropped' = Append(dropped, clock)
         /\ UNCHANGED <<calls, inThrottle, timers, mapBounds>>

\* the function throttle returns: func.apply(this, args), inThrottle = true,
\* setTimeout(() => inThrottle = false, limit), all when !inThrottle
executedFunction(region) ==
    IF ~inThrottle
    THEN /\ mapBounds' = boundsOf(region)
         /\ calls' = Append(calls, clock)
         /\ inThrottle' = TRUE
         /\ timers' = timers \cup {clock + limit}
         /\ UNCHANGED dropped
    ELSE /\ dropped' = Append(dropped, clock)
         /\ UNCHANGED <<calls, inThrottle, timers, mapBounds>>

\* handleRegionChangeComplete(region)
RegionChange ==
    /\ Len(calls) + Len(dropped) < MaxTriggers
    /\ \E region \in Regions :
          /\ executedFunction(region)
          /\ reported' = region
    /\ UNCHANGED <<clock, limit>>
    /\ UNCHANGED offThrottle

\* a callback of setTimeout runs, at its due time or later
TimerFires ==
    /\ \E due \in timers :
          /\ due <= clock
          /\ timers' = timers \ {due}
    /\ inThrottle' = FALSE
    /\ UNCHANGED <<clock, limit, calls, dropped, mapBounds, reported>>
    /\ UNCHANGED offThrottle

\* time passes
Elapse ==
    /\ clock < MaxClock
    /\ clock' = clock + ClockStep
    /\ UNCHANGED <<limit, inThrottle, timers, calls, dropped, mapBounds, reported>>
    /\ UNCHANGED offThrottle

NextThrottled == RegionChange \/ TimerFires \/ Elapse

SpecThrottled == InitThrottled /\ [][NextThrottled]_vars

\* the event loop runs a timer callback that is due, and time passes
SpecThrottledFair ==
    SpecThrottled /\ WF_vars(TimerFires) /\ WF_vars(Elapse)

----------------------------------------------------------------------------
(* Properties of the load cycle *)

Threshold == CACHE_EXPIRY_HOURS * MsPerHour

\* the cache holds an entry older than the expiry threshold
EntryTooOld == cache.kind = "entry" /\ now - cache.timestamp > Threshold

\* cycle i takes a step that moves it in loadGeoJSON
Moves(i) == cyc'[i].pc # cyc[i].pc

\* cycle i calls setGeoJsonData in this step
Installs(i) == memWriter' = i /\ memWriter # i

\* a normal load never installs from an entry that is too old, and does not
\* install at the check that finds one
C1_NeverInstalled(i) ==
    /\ (cyc[i].kind = "load" /\ Installs(i) /\ memSrc' = "cache")
          => (cache.kind = "entry" /\ ~EntryTooOld /\ geoJsonData' = cache.data)
    /\ (cyc[i].kind = "load" /\ cyc[i].pc = "cacheCheck" /\ Moves(i) /\ EntryTooOld)
          => (cyc'[i].pc \in {"purge", "primary"} /\ ~Installs(i))

\* C1 as stated: a normal load that finds the cached entry older than the
\* expiry threshold never installs it, the entry is removed from the cache,
\* and the cycle continues to the primary fetch.
C1_Original ==
    [][\A i \in Cycles :
          /\ C1_NeverInstalled(i)
          /\ (cyc[i].kind = "load" /\ cyc[i].pc = "purge" /\ Moves(i))
                => /\ cyc'[i].pc = "primary"
                   /\ ~(cache'.kind = "entry" /\ cache'.timestamp = cyc[i].seenTs)]_vars

\* C1 amended: a normal load that finds the cached entry older than the
\* expiry threshold never installs it; it awaits the removal of the entry and
\* continues to the primary fetch whether the removal succeeded (the cache is
\* then empty) or was rejected (the cache is left as it was).
C1_Expired ==
    [][\A i \in Cycles :
          /\ C1_NeverInstalled(i)
          /\ (cyc[i].kind = "load" /\ cyc[i].pc = "purge" /\ Moves(i))
                => /\ cyc'[i].pc = "primary"
                   /\ cache' \in {NoEntry, cache}]_vars

\* a normal load found the entry too old and awaits its removal
C1_Witness ==
    /\ cyc[1].kind = "load"
    /\ cyc[1].pc = "purge"
    /\ EntryTooOld
    /\ cyc[1].seenTs = cache.timestamp
    /\ geoJsonData = NoData

\* C2: a cycle started by refreshGeoJSON while the cache held an unexpired
\* entry never ends in a cache hit on that entry.
C2_RefreshBypasses ==
    [][\A i \in Cycles :
          (cyc[i].kind = "refresh" /\ cyc[i].pc = "cacheCheck" /\ cyc[i].held # -1)
             => ~(/\ Installs(i)
                  /\ memSrc' = "cache"
                  /\ cacheWriter = cyc[i].held)]_vars

\* the steps loadGeoJSON can take: cache, then primary, then fallback
Order ==
    {<<"idle", "cacheCheck">>,
     <<"cacheCheck", "done">>, <<"cacheCheck", "purge">>, <<"cacheCheck", "primary">>,
     <<"purge", "primary">>,
     <<"primary", "persist">>, <<"primary", "fallback">>,
     <<"fallback", "persist">>, <<"fallback", "error">>,
     <<"persist", "done">>}

\* C3: within one cycle the sources are consulted in the order cache,
\* primary, fallback, each at most once: the primary fetch is issued only
\* from a cache miss, the fallback fetch only from the failure of the
\* primary fetch, and a cache hit ends the cycle with no fetch issued.
C3_SourceOrder ==
    [][\A i \in Cycles :
          /\ Moves(i) => <<cyc[i].pc, cyc'[i].pc>> \in Order
          /\ (Moves(i) /\ cyc'[i].pc = "primary") => ~Installs(i)
          /\ (Moves(i) /\ cyc'[i].pc = "fallback")
                => (dataSource' = dataSource /\ ~Installs(i))
          /\ (cyc[i].pc = "cacheCheck" /\ Installs(i)) => cyc'[i].pc = "done"]_vars

\* a cycle has its fallback fetch in flight
C3_Witness == \E i \in Cycles : cyc[i].pc = "fallback" /\ dataSource = "cache"

\* what the pipeline makes of the bodies a source can serve
Optimized(bodies) ==
    {Optimize(simplifyGeoJSON(b, simplificationTolerance)) :
        b \in {c \in bodies : HasFeatures(c)}}

\* C4: a cycle served by the fallback ends in DONE with dataSource reported
\* as the fallback, and what it installs and caches is the simplified,
\* pruned collection.
C4_FallbackReported ==
    [][\A i \in Cycles :
          (cyc[i].pc = "persist" /\ cyc[i].src = "github" /\ Moves(i))
             => /\ cyc'[i].pc = "done"
                /\ dataSource' = "github"
                /\ cyc[i].opt \in Optimized(FallbackBodies)
                /\ geoJsonData' = cyc[i].opt
                /\ cache' # cache => cache'.data = JsonRoundTrip(cyc[i].opt)]_vars

\* C5: a cycle whose fallback fetch fails ends in ERROR with error set and
\* loading false; it tries no further source and writes nothing to the cache.
C5_BothFail ==
    /\ [](\A i \in Cycles : cyc[i].pc = "error" => cacheWriter # i)
    /\ [][\A i \in Cycles :
            /\ (cyc[i].pc = "fallback" /\ Moves(i) /\ cyc'[i].pc # "persist")
                  => /\ cyc'[i].pc = "error"
                     /\ error' # Null
                     /\ loading' = FALSE
                     /\ lastDone' = i
                     /\ cache' = cache
                     /\ ~Installs(i)
            /\ cyc[i].pc = "error" => cyc'[i].pc = "error"]_vars

\* a cycle ended in ERROR after both fetches failed
C5_Witness ==
    \E i \in Cycles :
        /\ cyc[i].pc = "error"
        /\ error = "Network request failed"
        /\ ~loading
        /\ lastDone = i

\* the two cycles a refresh made overlap have both fetched and completed
BothDone ==
    /\ ncyc = 2
    /\ cyc[2].overlap
    /\ \A i \in {1, 2} : cyc[i].pc = "done" /\ cyc[i].src \in {"api", "github"}

\* C6: once two overlapping cycles that both fetched have completed, the
\* cache entry and the collection in memory are those of the cycle that
\* completed later.
C6_LastWriteWins ==
    BothDone => (cacheWriter = lastDone /\ memWriter = lastDone)

Idle == \A i \in Cycles : ~InFlight(i)

\* C7: when no cycle is in flight and the last completed cycle ended in DONE,
\* dataSource names the source the collection in memory was obtained from.
C7_SourceMatchesData ==
    (Idle /\ lastDone # 0 /\ cyc[lastDone].pc = "done") => dataSource = memSrc

\* the identifier and the name a fetched feature carries, under the key
\* spellings the repository uses
Ident(f) ==
    Or(Or(Get(f.properties, "id"), Get(f.properties, "WARD_ID")),
       Get(f.properties, "ward_id"))

NameOf(f) == Or(Get(f.properties, "name"), Get(f.properties, "WARD_NAME"))

MinimalKeys == {"id", "name", "municipality"}

Carries(c, body) ==
    /\ HasFeatures(body)
    /\ Len(c.features) = Len(body.features)
    /\ \A k \in 1..Len(c.features) :
          /\ DOMAIN c.features[k].properties = MinimalKeys
          /\ c.features[k].properties.id = Ident(body.features[k])
          /\ c.features[k].properties.name = NameOf(body.features[k])

\* C8: the collection a cycle is about to cache and install after a fetch
\* has, per feature, exactly the properties id, name, municipality, with the
\* identifier and the name of the fetched feature.
C8_PrunedKeepsIdentity ==
    \A i \in Cycles :
        cyc[i].pc = "persist"
           => \E body \in (IF cyc[i].src = "api" THEN PrimaryBodies ELSE FallbackBodies) :
                 Carries(cyc[i].opt, body)

\* C9: a cycle whose cache write fails still ends in DONE with its collection
\* installed, error null and loading false.
C9_WriteFailureSwallowed ==
    [][\A i \in Cycles :
          (cyc[i].pc = "persist" /\ Moves(i) /\ cacheWriter' # i)
             => /\ cyc'[i].pc = "done"
                /\ geoJsonData' = cyc[i].opt
                /\ error' = Null
                /\ loading' = FALSE]_vars

----------------------------------------------------------------------------
(* Properties of the stride decimation *)

\* C10: the decimation of a closed ring is closed, in the client hard cap
\* and in the import route.
C10_ClosedStaysClosed ==
    (rOp # "none" /\ IsClosed(rIn)) => IsClosed(rOut)

\* the hard cap dropped the closing point of a closed ring and pushed it back
C10_Witness ==
    /\ rOp = "client"
    /\ IsClosed(rIn)
    /\ Len(rIn) > HardCapThreshold
    /\ (Len(rIn) - 1) % CeilDiv(Len(rIn), HardCapTarget) # 0
    /\ Len(rOut) < Len(rIn)

----------------------------------------------------------------------------
(* Properties of simplifyGeoJSON *)

\* the polygons of a boundary, each a sequence of rings
PolysOf(g) == IF g.type = "Polygon" THEN <<g.coordinates>> ELSE g.coordinates

\* C11: every ring of every boundary, single-ring or multi-ring, that is
\* longer than maxPoints (100) after the primary reduction is at most
\* maxPoints long in the output of simplifyGeoJSON.
C11_HardCapEveryRing ==
    gOp = "simplify" =>
        \A k \in 1..Len(gColl.features) :
            LET given == PolysOf(gColl.features[k].geometry)
                out   == PolysOf(gOut.features[k].geometry)
            IN  \A q \in 1..Len(given) : \A r \in 1..Len(given[q]) :
                    Len(LibRing(given[q][r], simplificationTolerance)) > HardCapThreshold
                       => Len(out[q][r]) <= HardCapThreshold

----------------------------------------------------------------------------
(* Properties of point location *)

\* the edges of a closed ring, as pairs of coordinate pairs
EdgesOf(ring) == {<<ring[k].p, ring[k + 1].p>> : k \in 1..(Len(ring) - 1)}

\* a closed ring that bounds a convex region with interior
Convex(ring) ==
    /\ Len(ring) >= 4
    /\ IsClosed(ring)
    /\ \E e \in EdgesOf(ring) : \E k \in 1..Len(ring) : Cross(e[1], e[2], ring[k].p) # 0
    /\ \/ \A e \in EdgesOf(ring) : \A k \in 1..Len(ring) : Cross(e[1], e[2], ring[k].p) >= 0
       \/ \A e \in EdgesOf(ring) : \A k \in 1..Len(ring) : Cross(e[1], e[2], ring[k].p) <= 0

XY(point) == <<point.longitude, point.latitude>>

\* the point lies on the inner side of every edge
StrictlyInside(point, ring) ==
    \/ \A e \in EdgesOf(ring) : Cross(e[1], e[2], XY(point)) > 0
    \/ \A e \in EdgesOf(ring) : Cross(e[1], e[2], XY(point)) < 0

\* the point lies on the outer side of some edge
StrictlyOutside(point, ring) ==
    /\ \E e \in EdgesOf(ring) : Cross(e[1], e[2], XY(point)) > 0
    /\ \E e \in EdgesOf(ring) : Cross(e[1], e[2], XY(point)) < 0

\* C12: for a convex closed ring isPointInPolygon returns true for every
\* point strictly inside and false for every point strictly outside, also
\* when the latitude of the point is that of a vertex and when the ring has
\* horizontal edges.
C12_ConvexInsideOutside ==
    (gOp = "pip" /\ Convex(gOut.of)) =>
        /\ StrictlyInside(gPoint, gOut.of) => gOut.value
        /\ StrictlyOutside(gPoint, gOut.of) => ~gOut.value

\* a point strictly inside a ring with a horizontal edge, level with one of
\* its vertices, was found inside
C12_Witness ==
    /\ gOp = "pip"
    /\ Convex(gOut.of)
    /\ StrictlyInside(gPoint, gOut.of)
    /\ \E k \in 1..Len(gOut.of) : gOut.of[k].p[2] = gPoint.latitude
    /\ \E e \in EdgesOf(gOut.of) : e[1][2] = e[2][2] /\ e[1] # e[2]
    /\ gOut.value

\* the outer rings of a boundary: the first ring of a Polygon, the first ring
\* of every polygon of a MultiPolygon
OuterRings(g) ==
    IF Get(g, "type") = "Polygon" THEN {g.coordinates[1]}
    ELSE IF Get(g, "type") = "MultiPolygon"
    THEN {g.coordinates[q][1] : q \in 1..Len(g.coordinates)}
    ELSE {}

\* the indices of the features with an outer ring that contains the point
Containing(point, c) ==
    {k \in 1..Len(c.features) :
        \E ring \in OuterRings(c.features[k].geometry) : isPointInPolygon(point, ring)}

Lowest(S) == CHOOSE k \in S : \A j \in S : k <= j

Absent(point, c) == c = NoData \/ ~HasFeatures(c) \/ point = NoData

\* C13: findWardForPoint returns the feature of lowest index with an outer
\* ring that contains the point, any of the outer rings of a multi-ring
\* feature counting, and null when no feature contains the point or when the
\* collection or the point is absent.
C13_FirstInOrder ==
    gOp = "find" =>
        IF Absent(gPoint, gColl) \/ Containing(gPoint, gColl) = {}
        THEN gOut = NoData
        ELSE gOut = gColl.features[Lowest(Containing(gPoint, gColl))]

\* several features contain the point; the first of them is a multi-ring
\* feature that contains it in its second polygon only, and it was returned
C13_Witness ==
    /\ gOp = "find"
    /\ ~Absent(gPoint, gColl)
    /\ Cardinality(Containing(gPoint, gColl)) >= 2
    /\ gOut = gColl.features[1]
    /\ gOut.geometry.type = "MultiPolygon"
    /\ ~isPointInPolygon(gPoint, gOut.geometry.coordinates[1][1])
    /\ gOut # gColl.features[2]

\* C20: findWardByLocation returns null when no feature of the collection
\* contains the point, and otherwise a summary of the first feature that
\* contains it; for a collection served by the primary boundaries endpoint
\* the identifier of the summary is the ward identifier of that feature.
C20_ResolvesIdentifier ==
    (gOp = "resolve" /\ ~gLoading) =>
        IF Absent(gPoint, gColl) \/ Containing(gPoint, gColl) = {}
        THEN gOut = NoData
        ELSE LET ward == gColl.features[Lowest(Containing(gPoint, gColl))]
             IN  /\ gOut # NoData
                 /\ gOut.properties = ward.properties
                 /\ FromEndpoint(gColl) => gOut.id = ward.properties.ward_id

----------------------------------------------------------------------------
(* Properties of the viewport filter *)

\* the place of a feature in a collection whose features are all different
PlaceIn(c, feature) == CHOOSE k \in 1..Len(c.features) : c.features[k] = feature

\* out lists features of c, each once, in the order they have in c
IsSubsequence(out, c) ==
    /\ \A k \in 1..Len(out.features) :
          \E j \in 1..Len(c.features) : c.features[j] = out.features[k]
    /\ \A k \in 1..(Len(out.features) - 1) :
          PlaceIn(c, out.features[k]) < PlaceIn(c, out.features[k + 1])

\* C14: for every collection and every viewport the filtered collection
\* has at most 100 features and is an order-preserving subsequence of the
\* collection.
C14_CappedSubsequence ==
    (gOp = "filter" /\ gColl # NoData) =>
        /\ Len(gOut.features) <= MaxFiltered
        /\ IsSubsequence(gOut, gColl)

\* more than 100 features passed the bounds test and 100 were returned
C14_Witness ==
    /\ gOp = "filter"
    /\ gColl # NoData
    /\ gBounds # NoData
    /\ Len(filterGeoJSONByBounds(gColl, gBounds).features) > MaxFiltered
    /\ Len(gOut.features) = MaxFiltered
    /\ gOut.features[MaxFiltered] = gColl.features[2 * MaxFiltered - 1]

----------------------------------------------------------------------------
(* Properties of the import and of the boundaries endpoint *)

IdKeys == {"id", "WARD_ID", "ward_id"}

\* the feature carries an identifier under one of the keys; an empty value
\* is no identifier
HasIdentifier(feature) ==
    /\ feature # NoData
    /\ feature.properties # NoData
    /\ \E key \in IdKeys :
          key \in DOMAIN feature.properties /\ feature.properties[key] # ""

\* the indices of the served features that carry an identifier
Identified == {k \in 1..Len(req.served.features) : HasIdentifier(req.served.features[k])}

\* the import answered 200
Imported == ipc = "done" /\ res.status = 200

\* C15: an import that reaches the upserts and whose batches all succeed
\* reports as total_features the number of features served and as
\* imported_count the number of those that carry an identifier under id,
\* WARD_ID or ward_id; the features without one are skipped.
C15_ImportCounts ==
    Imported =>
        /\ res.body.data.total_features = Len(req.served.features)
        /\ res.body.data.imported_count = Cardinality(Identified)
        /\ Len(wardsToInsert) = Cardinality(Identified)
        /\ \A j \in 1..Len(wardsToInsert) :
              \E k \in Identified :
                  wardsToInsert[j].properties = req.served.features[k].properties

\* three features were served, the second without an identifier, and the
\* import reported 2 of 3
C15_Witness ==
    /\ Imported
    /\ Len(req.served.features) = 3
    /\ Identified = {1, 3}
    /\ res.body.data.imported_count = 2
    /\ res.body.data.total_features = 3

\* the record is in the table as the import built it
Committed(record) ==
    record.ward_id \in DOMAIN wards /\ wards[record.ward_id] = record

\* the upserts issued so far took consecutive batches of at most 100 records
\* in the order of wardsToInsert, each after the success of the one before
ConsecutiveBatches ==
    \A a \in 1..Len(attempts) :
        /\ attempts[a].i = batchSize * (a - 1)
        /\ Len(attempts[a].batch) <= batchSize
        /\ attempts[a].batch =
              SubSeq(wardsToInsert, attempts[a].i + 1, attempts[a].i + Len(attempts[a].batch))
        /\ a < Len(attempts) =>
              (attempts[a].outcome = "ok" /\ Len(attempts[a].batch) = batchSize)

\* the response names batch k and carries the reason the store gave
ReportsFailure(response, k) ==
    /\ response.status >= 400
    /\ "batch" \in DOMAIN response.body /\ response.body.batch = k
    /\ \E message \in StoreErrors \cup {DuplicateError} :
          response.body.error = "Failed to insert ward batch: " \o message

\* C16: the import upserts consecutive batches of at most 100 records in
\* input order; when the upsert of batch k fails no later batch is
\* attempted, the batches before k stay in the table, and the import ends
\* with an error that reports which batch failed and why.
C16_BatchFailureReported ==
    /\ ConsecutiveBatches
    /\ \A k \in 1..Len(attempts) :
          attempts[k].outcome # "ok" =>
              /\ k = Len(attempts)
              /\ ipc = "done"
              /\ \A a \in 1..(k - 1) : \A j \in 1..Len(attempts[a].batch) :
                    Committed(attempts[a].batch[j])
              /\ ReportsFailure(res, k)

\* a boundary that cannot be read: a Polygon whose coordinates list has no
\* ring; a null among the features
Malformed(feature) ==
    \/ feature = NoData
    \/ /\ feature.geometry # NoData
       /\ feature.geometry.type = "Polygon"
       /\ Len(feature.geometry.coordinates) = 0

\* the fetch of geojson_url returned a collection and the loop has run
Looped == ipc \in {"upsert", "done"} /\ req.fetch = "ok" /\ HasFeatures(req.served)

\* C17: a feature with missing fields or an unreadable boundary is skipped
\* on its own: every other feature that has an identifier is still
\* submitted for upsert and the import does not end in an error because of
\* that feature.
C17_FeatureIsolated ==
    Looped =>
        \A k \in Identified :
            ~Malformed(req.served.features[k])
               => /\ \E j \in 1..Len(wardsToInsert) :
                        wardsToInsert[j].properties = req.served.features[k].properties
                  /\ (ipc = "done" /\ res.status = 500)
                        => \E a \in 1..Len(attempts) : attempts[a].outcome = "throws"

\* the boundaries were fetched, with success, for the municipality of the
\* import
FetchedBack ==
    /\ Imported
    /\ boundaries # NoData
    /\ boundaries.response.status = 200
    /\ req.municipality_id \in Municipalities
    /\ boundaries.municipality_id = req.municipality_id

Returned == boundaries.response.body.data.geojson.features

\* the table held the row under this municipality before the import
HeldBefore(id, municipality_id) ==
    \E table \in Tables :
        id \in DOMAIN table /\ table[id].municipality_id = municipality_id

\* C18: after a successful import under municipality M the boundaries
\* fetched for M hold a feature, carrying the identifier, for every feature
\* served that had one, and no feature for a served feature without one:
\* whatever else is returned was in the table under M before.
C18_RoundTrip ==
    FetchedBack =>
        /\ \A k \in Identified :
              \E feature \in Returned :
                  feature.properties.ward_id = wardIdOf(req.served.features[k])
        /\ \A feature \in Returned :
              \/ \E k \in Identified :
                     feature.properties.ward_id = wardIdOf(req.served.features[k])
              \/ HeldBefore(feature.properties.ward_id, req.municipality_id)
        /\ Cardinality(Returned) <=
              Cardinality(Identified)
                 + Cardinality({id \in UNION {DOMAIN table : table \in Tables} :
                                   HeldBefore(id, req.municipality_id)})

\* a collection with features that lack an identifier was imported into a
\* table that held rows of another municipality, and fetched back
C18_Witness ==
    /\ FetchedBack
    /\ Cardinality(Identified) < Len(req.served.features)
    /\ Cardinality(Identified) > batchSize
    /\ \E id \in DOMAIN wards : wards[id].municipality_id # req.municipality_id
    /\ Cardinality(Returned) = Cardinality(Identified) + 1

----------------------------------------------------------------------------
(* Properties of the throttled handler *)

\* a region change is delivered in this step
Triggered == Len(calls') + Len(dropped') > Len(calls) + Len(dropped)

\* C19: the throttled handler runs the wrapped function at most once per
\* interval: two runs are at least the interval apart, and a trigger that
\* arrives inside the window a run opened is suppressed.
C19_OncePerInterval ==
    /\ [](\A a, b \in 1..Len(calls) : a < b => calls[b] - calls[a] >= limit)
    /\ [][(Triggered /\ calls # <<>> /\ clock < Last(calls) + limit)
             => (calls' = calls /\ dropped' = Append(dropped, clock))]_vars

\* the function ran, a trigger inside its window was suppressed, and it ran
\* again once the interval was over
C19_Witness ==
    /\ Len(calls) >= 2
    /\ calls[2] = calls[1] + limit
    /\ \E k \in 1..Len(dropped) :
          calls[1] < dropped[k] /\ dropped[k] < calls[1] + limit

----------------------------------------------------------------------------
(* Sizes of decimated rings *)

\* C21: a ring that is longer than 100 points after the primary reduction
\* leaves the hard cap of simplifyGeoJSON with at most 50 points, the
\* re-appended closing point counted.
C21_HardCapAtMostTarget ==
    (rOp = "client" /\ Len(rIn) > HardCapThreshold) => Len(rOut) <= HardCapTarget

\* C22: a closed ring of at least 4 points leaves the import decimation,
\* under every tolerance greater than 0, with at least 4 points, a ring of
\* 4 or fewer points leaves it unchanged, and the hard cap of
\* simplifyGeoJSON never outputs fewer than 4 points.
C22_AtLeastFourPoints ==
    /\ (rOp = "import" /\ IsClosed(rIn) /\ Len(rIn) >= 4 /\ rTol.num > 0)
          => (Len(rOut) >= 4 /\ (Len(rIn) <= 4 => rOut = rIn))
    /\ (rOp = "client" /\ IsClosed(rIn) /\ Len(rIn) >= 4)
          => Len(rOut) >= 4

----------------------------------------------------------------------------
(* Properties of filterGeoJSONByBounds *)

\* the ring the filter looks at: the outer ring of a single-ring boundary,
\* the outer ring of the first polygon of a multi-polygon
PrimaryRing(g) ==
    IF g.type = "Polygon" THEN g.coordinates[1] ELSE g.coordinates[1][1]

\* some vertex of the primary ring lies in the viewport widened by the
\* margin on each side, the borders included
InView(feature, bounds) ==
    \E k \in 1..Len(PrimaryRing(feature.geometry)) :
        LET v == PrimaryRing(feature.geometry)[k].p
        IN  /\ bounds.southWest.longitude - BoundsMargin <= v[1]
            /\ v[1] <= bounds.northEast.longitude + BoundsMargin
            /\ bounds.southWest.latitude - BoundsMargin <= v[2]
            /\ v[2] <= bounds.northEast.latitude + BoundsMargin

Retained(k) == \E j \in 1..Len(gOut.features) : gOut.features[j] = gColl.features[k]

\* C23: of a collection of more than 50 features the filter returns only
\* features at even (0-based) indices, so at most half of them rounded up;
\* of a collection of at most 50 features no feature is removed for its
\* index: every single-ring feature with a vertex in view is returned.
C23_StrideSkip ==
    gOp = "bounds" =>
        LET n == Len(gColl.features)
        IN  /\ n > StrideSkipAbove =>
                /\ \A j \in 1..Len(gOut.features) :
                      (PlaceIn(gColl, gOut.features[j]) - 1) % 2 = 0
                /\ Len(gOut.features) <= CeilDiv(n, 2)
            /\ n <= StrideSkipAbove =>
                \A k \in 1..n :
                    (gColl.features[k].geometry.type = "Polygon"
                        /\ InView(gColl.features[k], gBounds)) => Retained(k)

\* 60 features, all in view: the 30 at even indices are returned
C23_Witness ==
    /\ gOp = "bounds"
    /\ Len(gColl.features) = 60
    /\ \A k \in 1..60 : InView(gColl.features[k], gBounds)
    /\ Len(gOut.features) = 30

\* the feature at 1-based place k passes the stride stage
PassesStride(k) == ~((k - 1) % 2 # 0 /\ Len(gColl.features) > StrideSkipAbove)

\* C24: a feature that passes the stride stage, single-ring or
\* multi-polygon, is returned by the filter exactly when a vertex of its
\* primary ring lies in the viewport widened by 0.01 degree on each side,
\* the borders included.
C24_RetainedIffVertexInView ==
    gOp = "bounds" =>
        \A k \in 1..Len(gColl.features) :
            PassesStride(k) => (Retained(k) <=> InView(gColl.features[k], gBounds))

----------------------------------------------------------------------------
(* The error state after overlapping load cycles *)

\* C25: whenever no load cycle is in flight and the cycle that completed
\* last ended with its data installed, error is null, so the map is shown
\* and not the retry screen; also when an earlier cycle, superseded by
\* refreshGeoJSON, failed after the later cycle had started.
C25_NoStaleError ==
    ((\A i \in Cycles : ~InFlight(i)) /\ lastDone # 0 /\ cyc[lastDone].pc = "done")
        => error = Null

----------------------------------------------------------------------------
(* The bounds applied after a burst of region changes *)

\* C26: after a burst of region changes ends, the bounds used for
\* filtering eventually equal the bounds of the last region reported in the
\* burst, also when that region change arrived inside a throttle window.
C26_LastRegionApplied ==
    <>[](reported # NoData => mapBounds = boundsOf(reported))

====
